---- MODULE Spec2Model ----
(***************************************************************************)
(* Model of the deforestation analysis service: the persisted processing   *)
(* statistics (app.py, _read/_write/_update_processing_stats), the image   *)
(* pipeline and the batch orchestrator (satellite_processor.py) and the    *)
(* request handlers that fold classification results into the statistics.  *)
(*                                                                         *)
(* Numbers.  Percentages are integers in hundredths (20.0 % is 2000) and   *)
(* confidences are integers in thousandths (0.95 is 950), so that          *)
(* round(x, 2) and round(x, 3) are roundings to the nearest integer.       *)
(* Python rounds the binary double; when the exact quotient lies halfway   *)
(* between two decimals the double lies on one or the other side of it,    *)
(* so a tie is resolved by a parameter the actions draw from BOOLEAN.      *)
(*                                                                         *)
(* The stats file holds a JSON document.  json.dump/json.load map the      *)
(* record's ints, floats, strings and lists to themselves, so a parsed     *)
(* document is the value that was dumped; what the model keeps apart is    *)
(* whether the file exists, whether it parses, whether the parsed value is *)
(* an object, and which keys the object holds.                             *)
(***************************************************************************)
EXTENDS Integers, Sequences, FiniteSets, TLC

VARIABLES
    file,       \* content of uploads/processing_stats.json
    clock,      \* logical time: the value datetime.now() gives next
    calls,      \* log of the history entries built by the record() calls so far
    ret,        \* outcome of the last record() call
    resp,       \* response of the last request handler
    req,        \* the request the last handler served
    pc,         \* position of each concurrent record() call
    loaded,     \* what each concurrent call read from the stats file
    arg,        \* arguments (filename, results) of each concurrent call
    local,      \* the mutated stats of each concurrent call
    overlapped, \* whether another writer wrote while this call had the file open
    run,        \* the last call of a pipeline function: its arguments and outcome
    self_vegetation_indices, \* the field vegetation_indices of the one processor instance
    job,        \* each thread's call of process_satellite_image: position and locals
    batch       \* the batch request being served step by step: position and locals

vars == <<file, clock, calls, ret, resp, req, pc, loaded, arg, local, overlapped, run,
          self_vegetation_indices, job, batch>>

----
\* Bounds of the model

MaxCalls == 4          \* record() calls in a sequential run
MaxCapCalls == 105     \* record() calls in the long run that fills the history
CapFree == 2           \* calls of the long run whose inputs are free

\* Program constants

HistoryCap == 100              \* stats['history'][-100:]
DeforestedThreshold == 2000    \* def_pct >= 20.0, in hundredths

----
\* JSON values and the stats file

StatKeys == {"total_processed", "total_deforested_images",
             "average_deforestation_percentage", "average_confidence", "history"}

\* A parsed JSON object with the keys in `keys`; a field whose key is absent
\* holds a placeholder that is never read.
Dict(keys, tp, td, ad, ac, h) ==
    [type |-> "dict", keys |-> keys,
     total_processed |-> tp, total_deforested_images |-> td,
     average_deforestation_percentage |-> ad, average_confidence |-> ac,
     history |-> h]

\* The record _read_processing_stats returns when there is nothing to load
ZeroStats == Dict(StatKeys, 0, 0, 0, 0, <<>>)

\* A parsed JSON value that is no object (a list, a number, null)
NonDict == [ZeroStats EXCEPT !.type = "other", !.keys = {}]

\* The object {}
EmptyDict == [ZeroStats EXCEPT !.keys = {}]

FileAbsent == [kind |-> "absent", json |-> ZeroStats]
FileUnreadable == [kind |-> "unreadable", json |-> ZeroStats]
FileJson(v) == [kind |-> "json", json |-> v]

\* dict.get(key, default)
Get(d, k, default) == IF k \in d.keys THEN d[k] ELSE default

\* _read_processing_stats with an except clause that hands back an empty
\* dict instead of the zeroed record
ReadStatsEmptyOnFailure(f) ==
    IF f.kind = "json" THEN f.json
    ELSE IF f.kind = "absent" THEN ZeroStats ELSE EmptyDict

\* _read_processing_stats: the parsed document, or the zeroed record when the
\* file is missing or open/json.load raises
ReadStats(f) == IF f.kind = "json" THEN f.json ELSE ZeroStats

----
\* Rounding

Min(a, b) == IF a < b THEN a ELSE b
Max(a, b) == IF a > b THEN a ELSE b

\* round(num / den) for num >= 0, den > 0; `up` resolves an exact tie
Round(num, den, up) ==
    LET q == num \div den
        r == num % den
    IN  IF 2 * r < den THEN q
        ELSE IF 2 * r > den THEN q + 1
        ELSE IF up THEN q + 1 ELSE q

\* the roundings of num / den a correct rounding may give
Roundings(num, den) == {Round(num, den, FALSE), Round(num, den, TRUE)}

\* Mutants of LastN: the cap forgotten; the oldest entries kept; one entry
\* too many kept
LastNUncapped(s, n) == s
LastNKeepsOneMore(s, n) ==
    IF Len(s) <= n + 1 THEN s ELSE SubSeq(s, Len(s) - n, Len(s))
FirstN(s, n) == IF Len(s) <= n THEN s ELSE SubSeq(s, 1, n)

\* seq[-n:]
LastN(s, n) == IF Len(s) <= n THEN s ELSE SubSeq(s, Len(s) - n + 1, Len(s))

----
\* Classification results, as record() reads them

ResultKeys == {"deforestation_percentage", "forest_percentage", "confidence",
               "total_pixels", "forest_pixels", "deforested_pixels"}

\* The dict detect_deforestation returns: percentages in hundredths, confidence
\* in thousandths
Result(keys, dp, fp, conf, tp, fpx, dpx) ==
    [keys |-> keys, deforestation_percentage |-> dp, forest_percentage |-> fp,
     confidence |-> conf, total_pixels |-> tp, forest_pixels |-> fpx,
     deforested_pixels |-> dpx]

\* The dict returned when there is no NDVI index
DegenerateResult ==
    Result({"deforestation_percentage", "confidence"}, 0, 0, 0, 0, 0, 0)

NoResult == Result({}, 0, 0, 0, 0, 0, 0)

----
\* _update_processing_stats

\* The history entry a call appends
HistoryEntry(filename, def_pct, conf, ts) ==
    [filename |-> filename, deforestation_percentage |-> def_pct,
     confidence |-> conf, timestamp |-> ts]

\* Mutant of CountsAsDeforested: a strict comparison
CountsAsDeforestedStrict(def_pct) == def_pct > DeforestedThreshold

\* if def_pct >= 20.0
CountsAsDeforested(def_pct) == def_pct >= DeforestedThreshold

\* The call raises before it writes when the loaded value is no object
\* (stats.get) or holds no history (stats['history'])
UpdateRaises(stats) == stats.type # "dict" \/ "history" \notin stats.keys

\* Mutant of UpdatedStats: the entry is appended and the counters are left
\* as loaded
UpdatedStatsNoCount(stats, filename, results, ts, upD, upC) ==
    [stats EXCEPT !.history = Append(stats.history,
                                     HistoryEntry(filename,
                                                  results.deforestation_percentage,
                                                  results.confidence, ts))]

\* Mutant of UpdatedStats: total_processed is left as loaded
UpdatedStatsTotalKept(stats, filename, results, ts, upD, upC) ==
    LET prev_total == Get(stats, "total_processed", 0)
        new_total == prev_total + 1
        avg_def == Get(stats, "average_deforestation_percentage", 0)
        avg_conf == Get(stats, "average_confidence", 0)
        def_pct == Get(results, "deforestation_percentage", 0)
        conf == Get(results, "confidence", 0)
        deforested == Get(stats, "total_deforested_images", 0)
    IN  [type |-> "dict",
         keys |-> stats.keys \cup
                  {"average_deforestation_percentage", "average_confidence",
                   "total_processed"} \cup
                  (IF CountsAsDeforested(def_pct)
                   THEN {"total_deforested_images"} ELSE {}),
         average_deforestation_percentage |->
             Round(avg_def * prev_total + def_pct, new_total, upD),
         average_confidence |->
             Round(avg_conf * prev_total + conf, new_total, upC),
         total_processed |-> prev_total,
         total_deforested_images |->
             IF CountsAsDeforested(def_pct) THEN deforested + 1
             ELSE stats.total_deforested_images,
         history |->
             LastN(Append(stats.history,
                          HistoryEntry(filename, def_pct, conf, ts)),
                   HistoryCap)]

\* The stats dict after lines 54-77: new averages, total, deforested count and
\* capped history
UpdatedStats(stats, filename, results, ts, upD, upC) ==
    LET prev_total == Get(stats, "total_processed", 0)
        new_total == prev_total + 1
        avg_def == Get(stats, "average_deforestation_percentage", 0)
        avg_conf == Get(stats, "average_confidence", 0)
        def_pct == Get(results, "deforestation_percentage", 0)
        conf == Get(results, "confidence", 0)
        deforested == Get(stats, "total_deforested_images", 0)
    IN  [type |-> "dict",
         keys |-> stats.keys \cup
                  {"average_deforestation_percentage", "average_confidence",
                   "total_processed"} \cup
                  (IF CountsAsDeforested(def_pct)
                   THEN {"total_deforested_images"} ELSE {}),
         average_deforestation_percentage |->
             Round(avg_def * prev_total + def_pct, new_total, upD),
         average_confidence |->
             Round(avg_conf * prev_total + conf, new_total, upC),
         total_processed |-> new_total,
         total_deforested_images |->
             IF CountsAsDeforested(def_pct) THEN deforested + 1
             ELSE stats.total_deforested_images,
         history |->
             LastN(Append(stats.history,
                          HistoryEntry(filename, def_pct, conf, ts)),
                   HistoryCap)]

\* Mutant of WriteStats: the record is never written
WriteStatsDropped(f, stats, fault) == f

\* _write_processing_stats: the file after the call.  A failing open leaves
\* the file as it was; a failure after open(..., 'w') truncated it leaves a
\* document that does not parse.  Neither is reported to the caller.
WriteStats(f, stats, fault) ==
    CASE fault = "none" -> FileJson(stats)
      [] fault = "open" -> f
      [] fault = "dump" -> FileUnreadable

NoReturn == [kind |-> "none", stats |-> ZeroStats]
Returned(stats) == [kind |-> "returned", stats |-> stats]
Raised(stats) == [kind |-> "raised", stats |-> stats]

\* the outcome of a call that loaded `stats` and built `new` from it
OutcomeOf(f, clk, stats, new, fault, entry) ==
    IF UpdateRaises(stats)
    THEN [file |-> f, clock |-> clk, ret |-> Raised(stats), entries |-> <<>>]
    ELSE [file |-> WriteStats(f, new, fault), clock |-> clk + 1,
          ret |-> Returned(new),
          entries |-> <<entry>>]

\* A whole record() call run alone: the file, the clock, the outcome and the
\* entry appended.
RecordOutcome(f, clk, filename, results, upD, upC, fault) ==
    OutcomeOf(f, clk, ReadStats(f),
              UpdatedStats(ReadStats(f), filename, results, clk, upD, upC), fault,
              HistoryEntry(filename, Get(results, "deforestation_percentage", 0),
                           Get(results, "confidence", 0), clk))

----
\* Sequential record() calls

\* A file name is the sequence of its characters
NameA == <<"a", ".", "p", "n", "g">>
NameB == <<"b", ".", "j", "p", "g">>
Filenames == {NameA, NameB}

FullResult(dp, conf) == Result(ResultKeys, dp, 0, conf, 0, 0, 0)

\* The results the sequential runs feed to record(): the degenerate one, one
\* just below the 20 % threshold and one exactly on it
ResultInputs == {DegenerateResult, FullResult(1999, 950), FullResult(2000, 505)}

\* What a handler hands to jsonify: the status code, the classification
\* results or the error that replaces them, the stats and the batch report.
\* The encoding of the response body is outside the model.
Response(kind, status, results, error, stats, report, total_files) ==
    [kind |-> kind, status |-> status, results |-> results, error |-> error,
     stats |-> stats, report |-> report, total_files |-> total_files]

NoResponse == Response("none", 0, NoResult, FALSE, ZeroStats, <<>>, 0)

\* A file that does not decode to an image
NoImage == [decodable |-> FALSE, height |-> 0, width |-> 0, pixels |-> <<>>]

\* A request: the file or directory it names and what the file system holds
\* there
Request(kind, given, exists, name, image, listable, listing) ==
    [kind |-> kind, given |-> given, exists |-> exists, name |-> name,
     image |-> image, listable |-> listable, listing |-> listing]

NoRequest == Request("none", FALSE, FALSE, <<>>, NoImage, FALSE, <<>>)

\* A raster is a pixel array: its shape, <<h, w>> or <<h, w, c>>, its pixels
\* in row-major order, each the tuple of its channel values, and the number
\* its values are fractions of: 1 for 8-bit values, 255 once divided by 255.0
Raster(shape, data, scale) == [shape |-> shape, data |-> data, scale |-> scale]

NoRaster == Raster(<<0, 0>>, <<>>, 1)

\* One vegetation index: a 2-D array of quotients, each kept as the pair
\* <<numerator, denominator>> the code divides (before 1e-8 is added)
IndexArray(shape, data) == [shape |-> shape, data |-> data]

NoIndex == IndexArray(<<0, 0>>, <<>>)

\* The dict calculate_vegetation_indices returns
IndexSet(keys, ndvi, gndvi, vari, greenness) ==
    [keys |-> keys, NDVI |-> ndvi, GNDVI |-> gndvi, VARI |-> vari,
     Greenness |-> greenness]

NoIndices == IndexSet({}, NoIndex, NoIndex, NoIndex, NoIndex)

\* The arguments of a call of a pipeline function and what came of it
Arguments(image, raster, indices, fault) ==
    [image |-> image, raster |-> raster, indices |-> indices, fault |-> fault]

Outcome(raised, raster, indices, results, steps, saved, swallowed) ==
    [raised |-> raised, raster |-> raster, indices |-> indices,
     results |-> results, steps |-> steps, saved |-> saved,
     swallowed |-> swallowed]

Call(op, args, out) == [op |-> op, args |-> args, out |-> out]

NoCall ==
    Call("none", Arguments(NoImage, NoRaster, NoIndices, "none"),
         Outcome(FALSE, NoRaster, NoIndices, NoResult, <<>>, {}, FALSE))

Threads == {1, 2}

\* The locals of one call of process_satellite_image and where it stands:
\* "idle" before the call, then the step it takes next, "done" after it.
\* `count` is the number of calls the thread has started.
Job(at, count, image, raster, indices, raised, results) ==
    [at |-> at, count |-> count, image |-> image, raster |-> raster,
     indices |-> indices, raised |-> raised, results |-> results]

NoJob == Job("idle", 0, NoImage, NoRaster, NoIndices, FALSE, NoResult)

\* The locals of batch_process_images and of the batch_process it calls, and
\* where the request stands: `files` are the supported files not yet
\* processed, `results` the report so far, `pending` the entries the handler
\* has not looked at yet.  `events` logs each file processed and each entry
\* recorded, and `base` is the length of the call log when the request came.
Batch(at, files, results, pending, events, base) ==
    [at |-> at, files |-> files, results |-> results, pending |-> pending,
     events |-> events, base |-> base]

NoBatch == Batch("idle", <<>>, <<>>, <<>>, <<>>, 0)

ThreadsIdle ==
    /\ pc = [t \in Threads |-> "idle"]
    /\ loaded = [t \in Threads |-> ZeroStats]
    /\ arg = [t \in Threads |-> [filename |-> <<>>, results |-> NoResult]]
    /\ local = [t \in Threads |-> ZeroStats]
    /\ overlapped = [t \in Threads |-> FALSE]

Init ==
    /\ file = FileAbsent
    /\ clock = 0
    /\ calls = <<>>
    /\ ret = NoReturn
    /\ resp = NoResponse
    /\ req = NoRequest
    /\ run = NoCall
    /\ self_vegetation_indices = NoIndices
    /\ job = [t \in Threads |-> NoJob]
    /\ batch = NoBatch
    /\ ThreadsIdle

\* record(filename, results), run to completion
Record(filename, results, upD, upC, fault) ==
    LET o == RecordOutcome(file, clock, filename, results, upD, upC, fault)
    IN  /\ file' = o.file
        /\ clock' = o.clock
        /\ ret' = o.ret
        /\ calls' = calls \o o.entries
        /\ UNCHANGED <<resp, req, pc, loaded, arg, local, overlapped, run,
                       self_vegetation_indices, job, batch>>

RecordCall ==
    /\ clock < MaxCalls
    /\ \E filename \in Filenames, results \in ResultInputs, upD, upC \in BOOLEAN :
           Record(filename, results, upD, upC, "none")

Next == RecordCall

Spec == Init /\ [][Next]_vars

----
\* The long sequential run: the first CapFree calls take any input, the later
\* ones a fixed cycle of inputs

CapResult(i) ==
    CASE i % 3 = 0 -> FullResult(2000, 505)
      [] i % 3 = 1 -> DegenerateResult
      [] i % 3 = 2 -> FullResult(1999, 950)

CapRecordCall ==
    /\ clock < MaxCapCalls
    /\ \E results \in (IF clock < CapFree THEN ResultInputs ELSE {CapResult(clock)}),
          upD, upC \in BOOLEAN :
           Record(NameA, results, upD, upC, "none")

NextCap == CapRecordCall

SpecCap == Init /\ [][NextCap]_vars

----
\* Properties of sequential record() calls

RECURSIVE SumOf(_, _)
\* the sum of field k over the entries of a log
SumOf(s, k) == IF s = <<>> THEN 0 ELSE s[1][k] + SumOf(Tail(s), k)

Persisted == file.json

\* C1 (as claimed): after n >= 1 sequential record() calls from no stats file,
\* average_deforestation_percentage is round(mean(v_1..v_n), 2) and
\* average_confidence is round(mean(c_1..c_n), 3); a mean that lies exactly
\* halfway may round either way.
C1_AveragesAreRoundedMeans ==
    (Len(calls) >= 1 /\ file.kind = "json") =>
        /\ Persisted.average_deforestation_percentage \in
               Roundings(SumOf(calls, "deforestation_percentage"), Len(calls))
        /\ Persisted.average_confidence \in
               Roundings(SumOf(calls, "confidence"), Len(calls))

\* C3: the persisted history never holds more than 100 entries.
C3_HistoryAtMostCap == Len(Persisted.history) <= 100

\* C3 witness: more than 100 calls were recorded and the history is full.
C3_Witness ==
    /\ file.kind = "json"
    /\ Persisted.total_processed > 100
    /\ Len(Persisted.history) = 100

\* C4: after n sequential record() calls from an empty record the history is
\* the entries of the last min(n, 100) calls, oldest first.
C4_HistoryIsLastCalls ==
    LET n == Len(calls)
        h == Persisted.history
    IN  /\ Len(h) = Min(n, 100)
        /\ \A i \in 1..Len(h) : h[i] = calls[n - Len(h) + i]

\* C4 witness: 105 calls made, the first 5 entries gone, the 6th call's entry
\* first and the 105th last.
C4_Witness ==
    /\ Len(calls) = 105
    /\ Len(Persisted.history) = 100
    /\ Persisted.history[1] = calls[6]
    /\ Persisted.history[1].timestamp = 5
    /\ Persisted.history[100] = calls[105]

\* C5: a record() call raises total_deforested_images by exactly 1 when the
\* result's deforestation percentage is at least 20.0 and leaves it unchanged
\* otherwise.
C5_DeforestedCountStep ==
    [][Len(calls') = Len(calls) + 1 =>
          LET e == calls'[Len(calls')]
              before == ReadStats(file).total_deforested_images
              after == file'.json.total_deforested_images
          IN  after = before + (IF e.deforestation_percentage >= 2000 THEN 1 ELSE 0)
      ]_vars

\* C5 witness: a 19.99 % result was recorded without counting and a 20.0 %
\* result after it was counted.
C5_Witness ==
    /\ Len(calls) = 2
    /\ calls[1].deforestation_percentage = 1999
    /\ calls[2].deforestation_percentage = 2000
    /\ file.kind = "json"
    /\ Persisted.total_deforested_images = 1

\* C6: a record() call without storage fault or concurrent writer returns the
\* loaded record with total_processed one higher, and the file then holds the
\* record it returns.
C6_RecordPersistsWhatItReturns ==
    [][Len(calls') = Len(calls) + 1 =>
          /\ ret'.kind = "returned"
          /\ ret'.stats.total_processed = ReadStats(file).total_processed + 1
          /\ file'.kind = "json"
          /\ file'.json = ret'.stats
      ]_vars

\* C6 witness: a second call returned, on top of a persisted first one.
C6_Witness ==
    /\ ret.kind = "returned"
    /\ ret.stats.total_processed = 2
    /\ file = FileJson(ret.stats)

\* C23: after any number of sequential record() calls from no stats file,
\* with no fault, 0 <= total_deforested_images <= total_processed.
C23_DeforestedAtMostProcessed ==
    LET stats == ReadStats(file)
    IN  /\ 0 <= stats.total_deforested_images
        /\ stats.total_deforested_images <= stats.total_processed
        /\ 0 <= stats.total_processed

\* C23 witness: three calls were recorded, two of them of deforested images.
C23_Witness ==
    /\ file.kind = "json"
    /\ Persisted.total_processed = 3
    /\ Persisted.total_deforested_images = 2

\* C24: after any number of sequential record() calls from no stats file,
\* with no fault, the history holds min(total_processed, 100) entries.
C24_HistoryLengthIsMinOfTotalAndCap ==
    LET stats == ReadStats(file)
    IN  Len(stats.history) =
            (IF stats.total_processed < 100 THEN stats.total_processed ELSE 100)

\* C24 witness: 104 calls were recorded and the history holds 100 entries,
\* after having held 99 entries at 99 calls.
C24_Witness ==
    /\ file.kind = "json"
    /\ Persisted.total_processed = 104
    /\ Len(Persisted.history) = 100
    /\ Len(calls) = 104

----
\* The stats file is damaged between calls: its text no longer parses, or the
\* file can no longer be opened for reading.  Writes succeed.

StatsFileDamaged ==
    /\ file.kind = "json"
    /\ file' = FileUnreadable
    /\ UNCHANGED <<clock, calls, ret, resp, req, pc, loaded, arg, local, overlapped, run,
                   self_vegetation_indices, job, batch>>

NextDamage == RecordCall \/ StatsFileDamaged

SpecDamage == Init /\ [][NextDamage]_vars

\* C25: a record() call that finds a stats file it cannot read or parse
\* returns normally and overwrites the file: the persisted record is the
\* returned one, has total_processed = 1 and a history of exactly the entry of
\* this call, whatever had been persisted before.
C25_UnreadableFileIsOverwritten ==
    [][(file = FileUnreadable /\ (file' # file \/ ret' # ret \/ calls' # calls))
          => /\ ret'.kind = "returned"
             /\ file' = FileJson(ret'.stats)
             /\ file'.json.total_processed = 1
             /\ Len(calls') = Len(calls) + 1
             /\ file'.json.history = <<calls'[Len(calls')]>>]_vars

\* Three calls were recorded, the file was damaged after the second, and the
\* persisted record counts one image
C25_Witness ==
    /\ file.kind = "json"
    /\ Len(calls) = 3
    /\ Persisted.total_processed = 1
    /\ Persisted.history = <<calls[3]>>

----
\* record() calls whose write of the stats file may fail: open(..., 'w')
\* raises, or json.dump raises after open has truncated the file

\* How a write of the stats file ends
StorageFaults == {"none", "open", "dump"}

RecordCallUnderFaults ==
    /\ clock < MaxCalls
    /\ \E filename \in Filenames, results \in ResultInputs, upD, upC \in BOOLEAN,
          fault \in StorageFaults :
           Record(filename, results, upD, upC, fault)

NextWrite == RecordCallUnderFaults

SpecWrite == Init /\ [][NextWrite]_vars

\* C26: when the write of the stats file fails during record(), the persisted
\* record is left unchanged while the returned record shows the update
\* (total_processed one higher, one more history entry than what the call
\* read).
C26_FailedWriteLeavesFileUnchanged ==
    [][(calls' # calls /\ file' # FileJson(ret'.stats))
          => /\ file' = file
             /\ ret'.kind = "returned"
             /\ ret'.stats.total_processed = ReadStats(file).total_processed + 1
             /\ Len(ret'.stats.history) = Min(Len(ReadStats(file).history) + 1, HistoryCap)]_vars

----
\* Concurrent record() calls.  The handlers run in threads of one server and
\* nothing serialises them: a call reads the file, builds the new record in
\* its own memory, opens the file for writing (which truncates it) and writes
\* the document when the file is closed.

MaxRaceCalls == 3      \* record() calls started in a concurrent run

\* The results the concurrent calls record
RaceInputs == {FullResult(1999, 950), FullResult(2000, 505)}

\* stats = _read_processing_stats()
Load(t) ==
    /\ pc[t] = "idle"
    /\ clock < MaxRaceCalls
    /\ \E results \in RaceInputs :
           arg' = [arg EXCEPT ![t] = [filename |-> IF t = 1 THEN NameA ELSE NameB,
                                      results |-> results]]
    /\ loaded' = [loaded EXCEPT ![t] = ReadStats(file)]
    /\ pc' = [pc EXCEPT ![t] = "loaded"]
    /\ UNCHANGED <<file, clock, calls, ret, resp, req, local, overlapped, run,
                   self_vegetation_indices, job, batch>>

\* lines 54-77, on the call's own copy
Compute(t) ==
    /\ pc[t] = "loaded"
    /\ ~UpdateRaises(loaded[t])
    /\ \E upD, upC \in BOOLEAN :
           local' = [local EXCEPT ![t] =
                        UpdatedStats(loaded[t], arg[t].filename, arg[t].results,
                                     clock, upD, upC)]
    /\ calls' = Append(calls,
                       HistoryEntry(arg[t].filename,
                                    Get(arg[t].results, "deforestation_percentage", 0),
                                    Get(arg[t].results, "confidence", 0), clock))
    /\ clock' = clock + 1
    /\ pc' = [pc EXCEPT ![t] = "computed"]
    /\ UNCHANGED <<file, ret, resp, req, loaded, arg, overlapped, run,
                   self_vegetation_indices, job, batch>>

\* open(PROCESSING_STATS_FILE, 'w'): the file is empty until the dump
OpenForWrite(t) ==
    /\ pc[t] = "computed"
    /\ file' = FileUnreadable
    /\ overlapped' = [overlapped EXCEPT ![t] = FALSE]
    /\ pc' = [pc EXCEPT ![t] = "opened"]
    /\ UNCHANGED <<clock, calls, ret, resp, req, loaded, arg, local, run,
                   self_vegetation_indices, job, batch>>

\* json.dump and close.  The document is written from offset 0; when another
\* writer wrote since this one opened the file, what is left is this call's
\* document or, the other document being longer, one that does not parse.
Dump(t) ==
    /\ pc[t] = "opened"
    /\ \/ file' = WriteStats(file, local[t], "none")
       \/ overlapped[t] /\ file' = FileUnreadable
    /\ overlapped' = [u \in Threads |->
                         IF u # t /\ pc[u] = "opened" THEN TRUE ELSE overlapped[u]]
    /\ ret' = Returned(local[t])
    /\ pc' = [pc EXCEPT ![t] = "done"]
    /\ UNCHANGED <<clock, calls, resp, req, loaded, arg, local, run,
                   self_vegetation_indices, job, batch>>

\* the handler returns, its locals are gone, and the thread takes the next
\* request
Finish(t) ==
    /\ pc[t] = "done"
    /\ pc' = [pc EXCEPT ![t] = "idle"]
    /\ loaded' = [loaded EXCEPT ![t] = ZeroStats]
    /\ local' = [local EXCEPT ![t] = ZeroStats]
    /\ arg' = [arg EXCEPT ![t] = [filename |-> <<>>, results |-> NoResult]]
    /\ UNCHANGED <<file, clock, calls, ret, resp, req, overlapped, run,
                   self_vegetation_indices, job, batch>>

NextRace == \E t \in Threads : Load(t) \/ Compute(t) \/ OpenForWrite(t) \/ Dump(t) \/ Finish(t)

SpecRace == Init /\ [][NextRace]_vars

\* C2: when two concurrent record() calls have loaded the same record, after
\* both have written the persisted total_processed is one more than the
\* loaded one, not two more, and the history holds the entry of one call (the
\* last writer's, whose record() returned last) and not the other's.
C2_LostUpdate ==
    ((\A t \in Threads : pc[t] = "done") /\ loaded[1] = loaded[2] /\ file.kind = "json") =>
        /\ Persisted.total_processed = loaded[1].total_processed + 1
        /\ Persisted = ret.stats
        /\ \E t \in Threads :
              LET mine == local[t].history[Len(local[t].history)]
                  other == local[3 - t].history[Len(local[3 - t].history)]
              IN  /\ Persisted.history = Append(loaded[1].history, mine)
                  /\ \A i \in 1..Len(Persisted.history) : Persisted.history[i] # other

\* C2 witness: one call was recorded alone, two more ran concurrently from the
\* same loaded record, and the file counts 2 calls and holds 2 entries while
\* 3 calls were made.
C2_Witness ==
    /\ \A t \in Threads : pc[t] = "done"
    /\ loaded[1] = loaded[2]
    /\ loaded[1].total_processed = 1
    /\ file.kind = "json"
    /\ Persisted.total_processed = 2
    /\ Len(Persisted.history) = 2
    /\ Len(calls) = 3

----
\* File names

UpperCase == <<"A", "B", "C", "D", "E", "F", "G", "H", "I", "J", "K", "L", "M",
               "N", "O", "P", "Q", "R", "S", "T", "U", "V", "W", "X", "Y", "Z">>
LowerCase == <<"a", "b", "c", "d", "e", "f", "g", "h", "i", "j", "k", "l", "m",
               "n", "o", "p", "q", "r", "s", "t", "u", "v", "w", "x", "y", "z">>

\* str.lower() of one character: the lower-case letter of an upper-case one,
\* any other character itself
ToLower ==
    [c \in {UpperCase[i] : i \in 1..26} |->
        LowerCase[CHOOSE i \in 1..26 : UpperCase[i] = c]]

LowerChar(c) == IF c \in DOMAIN ToLower THEN ToLower[c] ELSE c

Lower(name) == [i \in 1..Len(name) |-> LowerChar(name[i])]

\* str.endswith
EndsWith(name, suffix) ==
    /\ Len(name) >= Len(suffix)
    /\ SubSeq(name, Len(name) - Len(suffix) + 1, Len(name)) = suffix

\* self.supported_formats
SupportedFormats ==
    {<<".", "j", "p", "g">>, <<".", "j", "p", "e", "g">>,
     <<".", "p", "n", "g">>, <<".", "b", "m", "p">>}

\* Mutant of IsSupported: the name is compared as it is spelled
IsSupportedCaseSensitive(name) == \E fmt \in SupportedFormats : EndsWith(name, fmt)

\* any(filename.lower().endswith(fmt) for fmt in self.supported_formats)
IsSupported(name) ==
    LET lowered == Lower(name)
    IN  \E fmt \in SupportedFormats : EndsWith(lowered, fmt)

----
\* The analysis pipeline.  An image file is the picture it decodes to: its
\* height, its width and its pixels as <<r, g, b>> with 8-bit values, in
\* row-major order; a file that does not decode has none.

TargetSize == 2        \* side of the preprocessed raster (512 in the program)

Image(height, width, pixels) ==
    [decodable |-> TRUE, height |-> height, width |-> width, pixels |-> pixels]

\* load_image raises ValueError when cv2.imread returns None
LoadRaises(image) == ~image.decodable

\* cv2.imread: always 3 channels, in the order blue, green, red
ImRead(image) ==
    Raster(<<image.height, image.width, 3>>,
           [i \in 1..Len(image.pixels) |->
               <<image.pixels[i][3], image.pixels[i][2], image.pixels[i][1]>>],
           1)

\* cv2.cvtColor(image, COLOR_BGR2RGB) and COLOR_RGB2BGR on 3 channels
CvtColor(a) ==
    Raster(a.shape, [i \in 1..Len(a.data) |-> <<a.data[i][3], a.data[i][2], a.data[i][1]>>],
           a.scale)

\* cvtColor accepts 3 or 4 channels only
CvtColorRaises(a) == Len(a.shape) # 3 \/ a.shape[3] \notin {3, 4}

\* load_image on a file that decodes
LoadImage(image) == CvtColor(ImRead(image))

\* cv2.resize(image, target_size): the pixel at (y, x) of the result is taken
\* from the source pixel that covers it (cv2 interpolates between that pixel
\* and its neighbours, which gives a value between theirs).  The array cv2
\* returns for one channel is 2-D, whether or not the source had a channel
\* axis.
Resize(a) ==
    LET h == a.shape[1]
        w == a.shape[2]
    IN  Raster(IF Len(a.shape) = 3 /\ a.shape[3] > 1
               THEN <<TargetSize, TargetSize, a.shape[3]>>
               ELSE <<TargetSize, TargetSize>>,
               [i \in 1..(TargetSize * TargetSize) |->
                   a.data[((((i - 1) \div TargetSize) * h) \div TargetSize) * w
                          + (((i - 1) % TargetSize) * w) \div TargetSize + 1]],
               a.scale)

\* np.expand_dims(image, axis=-1)
ExpandDims(a) == Raster(a.shape \o <<1>>, a.data, a.scale)

\* preprocess_image with the default target size
PreprocessImage(image) ==
    LET resized == IF Len(image.shape) = 3
                   THEN Resize(image)
                   ELSE ExpandDims(Resize(image))
    IN  \* image.astype(np.float32) / 255.0
        Raster(resized.shape, resized.data, 255 * resized.scale)

\* Mutant of NdviNum: red and green exchanged
NdviNumSwapped(p) == p[1] - p[2]

\* NDVI = (g - r) / (g + r + 1e-8) as the fraction <<g - r, g + r>>; the
\* scale of the channel values cancels, and the epsilon only matters when
\* g + r = 0, where the index is 0
NdviNum(p) == p[2] - p[1]
NdviDen(p) == p[2] + p[1]
Ndvi(p) == <<NdviNum(p), NdviDen(p)>>

\* VARI = (g - r) / (g + r - b + 1e-8)
Vari(p) == <<p[2] - p[1], p[2] + p[1] - p[3]>>

\* greenness = g / (r + b + 1e-8)
Greenness(p) == <<p[2], p[1] + p[3]>>

IndexNames == {"NDVI", "GNDVI", "VARI", "Greenness"}

\* Mutant of CalculateVegetationIndices: exactly 3 channels are asked for
CalculateVegetationIndicesRgbOnly(image) ==
    IF Len(image.shape) = 3 /\ image.shape[3] = 3
    THEN LET shape == <<image.shape[1], image.shape[2]>>
             n == Len(image.data)
         IN  IndexSet(IndexNames,
                      IndexArray(shape, [i \in 1..n |-> Ndvi(image.data[i])]),
                      IndexArray(shape, [i \in 1..n |-> Ndvi(image.data[i])]),
                      IndexArray(shape, [i \in 1..n |-> Vari(image.data[i])]),
                      IndexArray(shape, [i \in 1..n |-> Greenness(image.data[i])]))
    ELSE NoIndices

\* calculate_vegetation_indices: the four indices of the first three channels,
\* or {} when there are fewer than three
CalculateVegetationIndices(image) ==
    IF Len(image.shape) = 3 /\ image.shape[3] >= 3
    THEN LET shape == <<image.shape[1], image.shape[2]>>
             n == Len(image.data)
         IN  IndexSet(IndexNames,
                      IndexArray(shape, [i \in 1..n |-> Ndvi(image.data[i])]),
                      IndexArray(shape, [i \in 1..n |-> Ndvi(image.data[i])]),
                      IndexArray(shape, [i \in 1..n |-> Vari(image.data[i])]),
                      IndexArray(shape, [i \in 1..n |-> Greenness(image.data[i])]))
    ELSE NoIndices

\* Mutant of IsForest: the threshold itself counts as forest
IsForestInclusive(v) == v[2] > 0 /\ 10 * v[1] >= 3 * v[2]

\* ndvi > forest_threshold (0.3), for the index value v = <<num, den>>
IsForest(v) == v[2] > 0 /\ 10 * v[1] > 3 * v[2]

\* Mutant of IsDeforested: a deforested threshold of 0.4, above the forest one
IsDeforestedOverlapping(v) == v[2] = 0 \/ 10 * v[1] < 4 * v[2]

\* ndvi < deforested_threshold (0.1)
IsDeforested(v) == v[2] = 0 \/ 10 * v[1] < v[2]

\* np.sum(ndvi > forest_threshold), np.sum(ndvi < deforested_threshold)
ForestPixels(ndvi) == Cardinality({i \in 1..Len(ndvi) : IsForest(ndvi[i])})
DeforestedPixels(ndvi) == Cardinality({i \in 1..Len(ndvi) : IsDeforested(ndvi[i])})

\* round(count / total * 100, 2) in hundredths; the quotient is exact in binary
\* when it lies halfway, and Python then rounds to even
PercentOf(count, total) ==
    Round(10000 * count, total, ((10000 * count) \div total) % 2 = 1)

\* an index value in thousandths, to the nearest
NdviMilli(v) ==
    IF v[2] = 0 THEN 0
    ELSE IF v[1] >= 0
         THEN Round(1000 * v[1], v[2], FALSE)
         ELSE 0 - Round(1000 * (0 - v[1]), v[2], FALSE)

RECURSIVE SumSeq(_)
SumSeq(s) == IF s = <<>> THEN 0 ELSE Head(s) + SumSeq(Tail(s))

RECURSIVE ISqrtIn(_, _, _)
\* the largest k in lo..hi with k * k <= n
ISqrtIn(n, lo, hi) ==
    IF lo >= hi THEN lo
    ELSE LET mid == (lo + hi + 1) \div 2
         IN  IF mid * mid <= n THEN ISqrtIn(n, mid, hi) ELSE ISqrtIn(n, lo, mid - 1)

\* the standard deviation of a sequence x of thousandths
StdOf(x) ==
    ISqrtIn(Len(x) * SumSeq([i \in 1..Len(x) |-> x[i] * x[i]]) - SumSeq(x) * SumSeq(x),
            0, 2000 * Len(x)) \div Len(x)

\* np.std(ndvi) in thousandths, to the precision of the thousandths above
StdMilli(ndvi) == StdOf([i \in 1..Len(ndvi) |-> NdviMilli(ndvi[i])])

\* Mutant of Confidence: the clamp is left out
ConfidenceUnclamped(ndvi) == 1000 - StdMilli(ndvi)

\* min(0.95, max(0.5, 1 - np.std(ndvi)))
Confidence(ndvi) == Min(950, Max(500, 1000 - StdMilli(ndvi)))

\* lines 130-143: the result dict built from the counts and the confidence,
\* percentages rounded to 2 decimals
ResultOfCounts(total_pixels, forest_pixels, deforested_pixels, confidence) ==
    Result(ResultKeys, PercentOf(deforested_pixels, total_pixels),
           PercentOf(forest_pixels, total_pixels), confidence,
           total_pixels, forest_pixels, deforested_pixels)

\* detect_deforestation; `image` is not looked at
DetectDeforestation(image, vegetation_indices) ==
    IF vegetation_indices.keys = {} THEN DegenerateResult
    ELSE IF "NDVI" \in vegetation_indices.keys
    THEN LET ndvi == vegetation_indices.NDVI.data
         IN  ResultOfCounts(Len(ndvi), ForestPixels(ndvi), DeforestedPixels(ndvi),
                            Confidence(ndvi))
    ELSE DegenerateResult

\* What may go wrong while save_results writes: nothing; cv2.imwrite raises
\* or returns False for the preprocessed image or for the mask; open() of the
\* results file raises; json.dump raises after the file was opened
SaveFaults ==
    {"none", "preprocessed", "preprocessed_unwritten", "mask", "mask_unwritten",
     "open", "dump"}

Saved(saved, raised) == [saved |-> saved, raised |-> raised]

\* The values of a result that are numpy scalars no subclass of a Python
\* number: the counts np.sum returns
NumpyValued == {"forest_pixels", "deforested_pixels"}

\* json.dump(results, f, indent=2) raises TypeError when it comes to such a
\* value, after it has written the keys before it
JsonDumpRaises(results) == results.keys \cap NumpyValued # {}

\* save_results: the artifacts it leaves in the output directory and whether
\* an exception reached its except clause
SaveResults(processed_image, results, fault) ==
    IF CvtColorRaises(processed_image) \/ fault = "preprocessed"
    THEN Saved({}, TRUE)
    ELSE LET first == IF fault = "preprocessed_unwritten" THEN {} ELSE {"preprocessed"}
             second == IF fault = "mask_unwritten" THEN first ELSE first \cup {"mask"}
         IN  IF fault = "mask" THEN Saved(first, TRUE)
             ELSE IF fault = "open" THEN Saved(second, TRUE)
             ELSE IF fault = "dump" \/ JsonDumpRaises(results)
             THEN Saved(second \cup {"results_partial"}, TRUE)
             ELSE Saved(second \cup {"results"}, FALSE)

AllSteps == <<"load", "preprocess", "indices", "detect", "save">>

\* process_satellite_image after the load, one step per definition: the
\* indices of the preprocessed image, the detection, save_results, the return
Finished(processed_image, indices, results, s) ==
    Outcome(FALSE, processed_image, indices, results, AllSteps, s.saved, s.raised)

Detected(processed_image, indices, results, fault) ==
    Finished(processed_image, indices, results,
             SaveResults(processed_image, results, fault))

Indexed(processed_image, indices, fault) ==
    Detected(processed_image, indices,
             DetectDeforestation(processed_image, indices), fault)

Preprocessed(processed_image, fault) ==
    Indexed(processed_image, CalculateVegetationIndices(processed_image), fault)

\* Mutant of PipelineRun: a load failure is answered with the degenerate result
PipelineRunSwallowsLoad(image, fault) ==
    IF LoadRaises(image)
    THEN Outcome(FALSE, NoRaster, NoIndices, DegenerateResult, AllSteps, {}, TRUE)
    ELSE Preprocessed(PreprocessImage(LoadImage(image)), fault)

\* Mutant of PipelineRun: an exception of save_results is raised again
PipelineRunSaveRaises(image, fault) ==
    IF LoadRaises(image)
    THEN Outcome(TRUE, NoRaster, NoIndices, NoResult, <<"load">>, {}, FALSE)
    ELSE LET o == Preprocessed(PreprocessImage(LoadImage(image)), fault)
         IN  IF o.swallowed
             THEN Outcome(TRUE, o.raster, o.indices, NoResult, AllSteps, o.saved, FALSE)
             ELSE o

\* process_satellite_image (the method): load, preprocess, indices, detection,
\* save.  An exception of load_image is logged and raised again before any
\* later step; save_results catches its own.
PipelineRun(image, fault) ==
    IF LoadRaises(image)
    THEN Outcome(TRUE, NoRaster, NoIndices, NoResult, <<"load">>, {}, FALSE)
    ELSE Preprocessed(PreprocessImage(LoadImage(image)), fault)

\* self.vegetation_indices after process_satellite_image(image) on a processor
\* whose field held `field`: line 103 is reached unless load_image raises
IndicesAfter(field, image) ==
    IF LoadRaises(image) THEN field
    ELSE CalculateVegetationIndices(PreprocessImage(LoadImage(image)))

Classified(results) == [raised |-> FALSE, results |-> results]
Failed == [raised |-> TRUE, results |-> NoResult]

\* What the caller of process_satellite_image gets: the results or the
\* exception.  Neither depends on what save_results met.
ProcessSatelliteImage(image) ==
    IF LoadRaises(image) THEN Failed
    ELSE Classified(PipelineRun(image, "none").results)

----
\* batch_process

\* the entry appended for a file, given the outcome o of its processing
EntryOf(name, o) ==
    IF o.raised
    THEN [file |-> name, result |-> NoResult, status |-> "error",
          error |-> "Could not load image"]
    ELSE [file |-> name, result |-> o.results, status |-> "success", error |-> ""]

\* One entry of the report: the classification, or the error that replaced it
ReportEntry(e) == EntryOf(e.name, ProcessSatelliteImage(e.image))

\* the files os.listdir gives whose name has a supported format, in listing order
SupportedFiles(listing) == SelectSeq(listing, LAMBDA e : IsSupported(e.name))

RECURSIVE ProcessEachUntilFailure(_)
\* Mutant of ProcessEach: the first failure ends the loop
ProcessEachUntilFailure(files) ==
    IF files = <<>> THEN <<>>
    ELSE IF ReportEntry(Head(files)).status = "error"
    THEN <<ReportEntry(Head(files))>>
    ELSE <<ReportEntry(Head(files))>> \o ProcessEachUntilFailure(Tail(files))

RECURSIVE ProcessEach(_)
\* for file_path in supported_files: one entry appended per file
ProcessEach(files) ==
    IF files = <<>> THEN <<>>
    ELSE <<ReportEntry(Head(files))>> \o ProcessEach(Tail(files))

\* Mutant of BatchProcess: total_files counts every directory entry
BatchProcessCountsAll(listing) ==
    [results |-> ProcessEach(SupportedFiles(listing)), total_files |-> Len(listing)]

RECURSIVE IndicesAfterEach(_, _)
\* self.vegetation_indices after the loop of batch_process over `files`
IndicesAfterEach(field, files) ==
    IF files = <<>> THEN field
    ELSE IndicesAfterEach(IndicesAfter(field, Head(files).image), Tail(files))

\* batch_process on a directory that can be listed
BatchProcess(listing) ==
    LET supported_files == SupportedFiles(listing)
    IN  [results |-> ProcessEach(supported_files),
         total_files |-> Len(supported_files)]

----
\* Request handlers.  A handler runs to completion; `faults` are the storage
\* faults a write of the stats file may meet while it runs.

\* the outcomes of one record() call
RecordOutcomes(f, clk, filename, results, faults) ==
    {RecordOutcome(f, clk, filename, results, upD, upC, fault) :
        upD \in BOOLEAN, upC \in BOOLEAN, fault \in faults}

\* the state a handler threads through its record() calls
Progress(f, clk, log, r, raised) ==
    [file |-> f, clock |-> clk, log |-> log, ret |-> r, raised |-> raised]

After(st, o) ==
    Progress(o.file, o.clock, st.log \o o.entries, o.ret, o.ret.kind = "raised")

\* Mutant of IsRecorded: the status is not looked at
IsRecordedWhateverStatus(entry) == TRUE

\* entry.get('status') == 'success' and entry.get('result')
IsRecorded(entry) == entry.status = "success" /\ entry.result.keys # {}

RECURSIVE FoldRecords(_, _, _)
\* for entry in batch_results['results']: record the successes, until one raises
FoldRecords(st, entries, faults) ==
    IF entries = <<>> \/ st.raised THEN {st}
    ELSE IF IsRecorded(Head(entries))
    THEN UNION {FoldRecords(After(st, o), Tail(entries), faults) :
                  o \in RecordOutcomes(st.file, st.clock, Head(entries).file,
                                       Head(entries).result, faults)}
    ELSE FoldRecords(st, Tail(entries), faults)

Start == Progress(file, clock, <<>>, ret, FALSE)

\* the handler's effect on the stats file, the clock and the call log
Commit(st) ==
    /\ file' = st.file
    /\ clock' = st.clock
    /\ calls' = calls \o st.log
    /\ ret' = st.ret
    /\ UNCHANGED <<pc, loaded, arg, local, overlapped, run, job, batch>>

NoEffect == UNCHANGED <<file, clock, calls, ret, pc, loaded, arg, local, overlapped, run,
                        self_vegetation_indices, job, batch>>

Respond(r) == resp' = r

----
\* What the requests name

MaxDirFiles == 5       \* files in a directory given to the batch request
MaxBatchClock == 2     \* a request starts while fewer updates than this were made

Forest == <<50, 180, 50>>
Bare == <<200, 60, 60>>
Between == <<100, 150, 50>>

File(name, image) == [name |-> name, image |-> image]

\* The files the requests draw from: three images that decode (one with an
\* upper-case extension), two files that do not, and one image in a format
\* the batch does not list
DirPool ==
    <<File(<<"b", ".", "j", "p", "g">>, Image(1, 2, <<Bare, Bare>>)),
      File(<<"a", ".", "P", "N", "G">>, Image(1, 1, <<Forest>>)),
      File(<<"x", ".", "p", "n", "g">>, NoImage),
      File(<<"m", ".", "j", "p", "e", "g">>, Image(2, 2, <<Bare, Forest, Forest, Between>>)),
      File(<<"y", ".", "b", "m", "p">>, NoImage),
      File(<<"t", ".", "t", "i", "f">>, Image(3, 1, <<Between, Between, Bare>>))>>

\* os.listdir of a directory holding the pool files numbered in S
ListingOf(S) == SelectSeq(DirPool, LAMBDA e : \E i \in S : DirPool[i] = e)

\* the batch requests that name a directory of at most n files, a directory
\* that does not exist, a path that cannot be listed, or nothing
BatchRequestsUpTo(n) ==
    {Request("batch", TRUE, TRUE, <<>>, NoImage, TRUE, ListingOf(S)) :
        S \in {T \in SUBSET (1..Len(DirPool)) : Cardinality(T) <= n}}
    \cup {Request("batch", FALSE, FALSE, <<>>, NoImage, FALSE, <<>>),
          Request("batch", TRUE, FALSE, <<>>, NoImage, FALSE, <<>>),
          Request("batch", TRUE, TRUE, <<>>, NoImage, FALSE, <<>>)}

BatchRequests == BatchRequestsUpTo(MaxDirFiles)

UploadRequests ==
    {Request("upload", TRUE, TRUE, DirPool[i].name, DirPool[i].image, FALSE, <<>>) :
        i \in 1..Len(DirPool)}
    \cup {Request("upload", FALSE, FALSE, <<>>, NoImage, FALSE, <<>>),
          Request("upload", TRUE, TRUE, <<>>, NoImage, FALSE, <<>>),
          Request("upload", TRUE, TRUE, <<"n", "o", "t", "e", "s">>, NoImage, FALSE, <<>>),
          Request("upload", TRUE, TRUE, <<"n", ".", "t", "x", "t">>, NoImage, FALSE, <<>>)}

ProcessRequests ==
    {Request("process", TRUE, TRUE, DirPool[i].name, DirPool[i].image, FALSE, <<>>) :
        i \in 1..Len(DirPool)}
    \cup {Request("process", FALSE, FALSE, <<>>, NoImage, FALSE, <<>>),
          Request("process", TRUE, FALSE, DirPool[1].name, NoImage, FALSE, <<>>)}

----
\* upload_satellite_image

\* app.config['ALLOWED_EXTENSIONS']
AllowedExtensions ==
    {<<"p", "n", "g">>, <<"j", "p", "g">>, <<"j", "p", "e", "g">>,
     <<"t", "i", "f">>, <<"t", "i", "f", "f">>, <<"b", "m", "p">>}

HasDot(name) == \E i \in 1..Len(name) : name[i] = "."

\* filename.rsplit('.', 1)[1]
Extension(name) ==
    LET last == CHOOSE i \in 1..Len(name) :
                    name[i] = "." /\ \A j \in (i + 1)..Len(name) : name[j] # "."
    IN  SubSeq(name, last + 1, Len(name))

\* allowed_file
AllowedFile(name) == HasDot(name) /\ Lower(Extension(name)) \in AllowedExtensions

\* f"{uuid.uuid4().hex}_{filename}"; the random prefix is one fixed token
UniqueName(name) == <<"u", "_">> \o name

ErrorBody(kind, status) == Response(kind, status, NoResult, TRUE, ZeroStats, <<>>, 0)

\* Mutant of UploadProcessed: a failed image is recorded with the degenerate
\* result
UploadProcessedRecordsFailure(r, o, faults) ==
    IF o.raised
    THEN \E u \in RecordOutcomes(file, clock, UniqueName(r.name), DegenerateResult, faults) :
             /\ Commit(After(Start, u))
             /\ UNCHANGED self_vegetation_indices
             /\ Respond(Response("upload", 200, NoResult, TRUE,
                                  ReadStats(u.file), <<>>, 0))
    ELSE \E u \in RecordOutcomes(file, clock, UniqueName(r.name), o.results, faults) :
             /\ Commit(After(Start, u))
             /\ self_vegetation_indices' = IndicesAfter(self_vegetation_indices, r.image)
             /\ IF u.ret.kind = "raised"
                THEN Respond(Response("upload", 200, NoResult, TRUE,
                                      ReadStats(u.file), <<>>, 0))
                ELSE Respond(Response("upload", 200, o.results, FALSE,
                                      u.ret.stats, <<>>, 0))

\* the try block of lines 244-249, given the outcome o of the pipeline
UploadProcessed(r, o, faults) ==
    IF o.raised
    THEN \* except: results = {'error': ...}; stats = _read_processing_stats()
         /\ Respond(Response("upload", 200, NoResult, TRUE, ReadStats(file), <<>>, 0))
         /\ NoEffect
    ELSE \E u \in RecordOutcomes(file, clock, UniqueName(r.name), o.results, faults) :
             /\ Commit(After(Start, u))
             /\ self_vegetation_indices' = IndicesAfter(self_vegetation_indices, r.image)
             /\ IF u.ret.kind = "raised"
                THEN Respond(Response("upload", 200, NoResult, TRUE,
                                      ReadStats(u.file), <<>>, 0))
                ELSE Respond(Response("upload", 200, o.results, FALSE,
                                      u.ret.stats, <<>>, 0))

UploadHandler(r, faults) ==
    /\ req' = r
    /\ IF ~r.given \/ r.name = <<>> \/ ~AllowedFile(r.name)
       THEN Respond(ErrorBody("upload", 400)) /\ NoEffect
       ELSE UploadProcessed(r, ProcessSatelliteImage(r.image), faults)

----
\* process_satellite_image (the request handler)

\* lines 280-292, given the outcome o of the pipeline; an exception of the
\* pipeline or of the update is answered with status 500
ProcessProcessed(r, o, faults) ==
    IF o.raised
    THEN Respond(ErrorBody("process", 500)) /\ NoEffect
    ELSE \E u \in RecordOutcomes(file, clock, r.name, o.results, faults) :
             /\ Commit(After(Start, u))
             /\ self_vegetation_indices' = IndicesAfter(self_vegetation_indices, r.image)
             /\ IF u.ret.kind = "raised"
                THEN Respond(ErrorBody("process", 500))
                ELSE Respond(Response("process", 200, o.results, FALSE,
                                      u.ret.stats, <<>>, 0))

ProcessHandler(r, faults) ==
    /\ req' = r
    /\ IF ~r.given
       THEN Respond(ErrorBody("process", 400)) /\ NoEffect
       ELSE IF ~r.exists
       THEN Respond(ErrorBody("process", 404)) /\ NoEffect
       ELSE ProcessProcessed(r, ProcessSatelliteImage(r.image), faults)

----
\* batch_process_images

\* for entry in batch_results.get('results', []): ...; then the response
BatchFold(batch_results, faults) ==
    \E st \in FoldRecords(Start, batch_results.results, faults) :
        /\ Commit(st)
        /\ IF st.raised
           THEN Respond(ErrorBody("batch", 500))
           ELSE Respond(Response("batch", 200, NoResult, FALSE,
                                 ReadStats(st.file),
                                 batch_results.results,
                                 batch_results.total_files))

BatchHandler(r, faults) ==
    /\ req' = r
    /\ IF ~r.given
       THEN Respond(ErrorBody("batch", 400)) /\ NoEffect
       ELSE IF ~r.exists
       THEN Respond(ErrorBody("batch", 404)) /\ NoEffect
       ELSE IF ~r.listable
       THEN \* os.listdir raises and batch_process re-raises
            Respond(ErrorBody("batch", 500)) /\ NoEffect
       ELSE /\ BatchFold(BatchProcess(r.listing), faults)
            /\ self_vegetation_indices' =
                   IndicesAfterEach(self_vegetation_indices, SupportedFiles(r.listing))

----
\* The service without storage faults and without concurrent requests

UploadSatelliteImage ==
    clock < MaxBatchClock /\ \E r \in UploadRequests : UploadHandler(r, {"none"})

ProcessImage ==
    clock < MaxBatchClock /\ \E r \in ProcessRequests : ProcessHandler(r, {"none"})

BatchProcessImages ==
    clock < MaxBatchClock /\ \E r \in BatchRequests : BatchHandler(r, {"none"})

NextBatch == UploadSatelliteImage \/ ProcessImage \/ BatchProcessImages

SpecBatch == Init /\ [][NextBatch]_vars

----
\* Properties of batch processing

\* the entries of a listing whose extension, lower-cased, is jpg, jpeg, png or
\* bmp
Discovered(listing) ==
    SelectSeq(listing,
              LAMBDA e : /\ HasDot(e.name)
                         /\ Lower(Extension(e.name)) \in
                                {<<"j", "p", "g">>, <<"j", "p", "e", "g">>,
                                 <<"p", "n", "g">>, <<"b", "m", "p">>})

BatchReturned == resp.kind = "batch" /\ resp.status = 200

CountStatus(report, status) ==
    Cardinality({i \in 1..Len(report) : report[i].status = status})

\* C7: the report of a batch has total_files equal to the number of
\* discovered supported files, and one entry per discovered file (success or
\* error) in discovery order.
C7_OneEntryPerDiscoveredFile ==
    BatchReturned =>
        LET found == Discovered(req.listing)
        IN  /\ resp.total_files = Len(found)
            /\ Len(resp.report) = Len(found)
            /\ \A i \in 1..Len(found) :
                  /\ resp.report[i].file = found[i].name
                  /\ resp.report[i].status \in {"success", "error"}

\* C7 witness: a directory of 5 entries of which 4 are supported, reported
\* with successes and errors.
C7_Witness ==
    /\ BatchReturned
    /\ Len(req.listing) = 5
    /\ resp.total_files = 4
    /\ CountStatus(resp.report, "success") >= 1
    /\ CountStatus(resp.report, "error") >= 1

\* C8: a file that fails is reported as an error entry with a null result and
\* the error description, every other discovered file, before or after it, is
\* still processed and reported under its own outcome, and the batch returns.
C8_FailuresAreIsolated ==
    (resp.kind = "batch" /\ req.given /\ req.exists /\ req.listable) =>
        LET found == Discovered(req.listing)
        IN  /\ resp.status = 200
            /\ Len(resp.report) = Len(found)
            /\ \A i \in 1..Len(found) :
                  IF found[i].image.decodable
                  THEN /\ resp.report[i].status = "success"
                       /\ resp.report[i].result =
                              LET image == PreprocessImage(LoadImage(found[i].image))
                              IN  DetectDeforestation(
                                      image, CalculateVegetationIndices(image))
                  ELSE /\ resp.report[i].status = "error"
                       /\ resp.report[i].result = NoResult
                       /\ resp.report[i].error # ""

\* C8 witness: 3 valid and 2 corrupt files give total_files 5, 3 successes and
\* 2 errors, with a success reported after an error.
C8_Witness ==
    /\ BatchReturned
    /\ resp.total_files = 5
    /\ CountStatus(resp.report, "success") = 3
    /\ CountStatus(resp.report, "error") = 2
    /\ \E i, j \in 1..5 :
          i < j /\ resp.report[i].status = "error" /\ resp.report[j].status = "success"

\* the entries of a report with a given status
WithStatus(report, status) == SelectSeq(report, LAMBDA e : e.status = status)

\* the entries the calls of one step added to the log
Added == SubSeq(calls', Len(calls) + 1, Len(calls'))

\* C9: every successful result is folded into the statistics exactly once.  A
\* batch with s successes raises total_processed by s and adds the history
\* entries of its successes, in order, and none for an error entry; a single
\* image that is classified raises it by 1, and a request that classifies
\* nothing leaves the file alone.
C9_EachSuccessFoldedOnce ==
    [][/\ (resp'.kind = "batch" /\ resp'.status = 200) =>
              LET ok == WithStatus(resp'.report, "success")
                  bad == WithStatus(resp'.report, "error")
              IN  /\ ReadStats(file').total_processed =
                         ReadStats(file).total_processed + Len(ok)
                  /\ Len(Added) = Len(ok)
                  /\ \A i \in 1..Len(ok) :
                        /\ Added[i].filename = ok[i].file
                        /\ Added[i].deforestation_percentage =
                               ok[i].result.deforestation_percentage
                  /\ ReadStats(file').history = ReadStats(file).history \o Added
                  /\ \A i \in 1..Len(bad), j \in 1..Len(Added) :
                        Added[j].filename # bad[i].file
       /\ (resp'.kind \in {"upload", "process"} /\ resp'.status = 200 /\ ~resp'.error) =>
              /\ ReadStats(file').total_processed = ReadStats(file).total_processed + 1
              /\ Len(Added) = 1
              /\ Added[1].deforestation_percentage = resp'.results.deforestation_percentage
              /\ ReadStats(file').history = ReadStats(file).history \o Added
       /\ (resp'.kind \in {"upload", "process", "batch"} /\ resp'.error) =>
              /\ file' = file
              /\ calls' = calls
      ]_vars

\* C9 witness: after one single-image update, a batch with 3 successes and 2
\* errors has brought total_processed to 4 with 4 history entries.
C9_Witness ==
    /\ BatchReturned
    /\ CountStatus(resp.report, "success") = 3
    /\ CountStatus(resp.report, "error") = 2
    /\ file.kind = "json"
    /\ Persisted.total_processed = 4
    /\ Len(Persisted.history) = 4
    /\ Len(calls) = 4

\* C30: when the processing of an uploaded or named image raises, the request
\* leaves the persisted record as it was (no record() call is made); the
\* upload path answers 200 with an error and the record as persisted, the
\* process path answers 500.
C30_FailedImageLeavesStatsAlone ==
    [][(/\ req'.kind \in {"upload", "process"}
        /\ req'.given
        /\ req'.kind = "upload" => (req'.name # <<>> /\ AllowedFile(req'.name))
        /\ req'.kind = "process" => req'.exists
        /\ ~req'.image.decodable)
          => /\ file' = file
             /\ ReadStats(file') = ReadStats(file)
             /\ calls' = calls
             /\ clock' = clock
             /\ req'.kind = "upload" =>
                    /\ resp'.status = 200
                    /\ resp'.error
                    /\ resp'.stats = ReadStats(file')
             /\ req'.kind = "process" => resp'.status = 500]_vars

\* C30 witness: an upload that does not decode, answered with the error and
\* the record an earlier request had persisted
C30_Witness ==
    /\ req.kind = "upload"
    /\ AllowedFile(req.name)
    /\ ~req.image.decodable
    /\ resp.kind = "upload" /\ resp.status = 200 /\ resp.error
    /\ file.kind = "json"
    /\ Persisted.total_processed = 1
    /\ Len(Persisted.history) = 1
    /\ resp.stats = Persisted

\* the name ends, whatever its case, with .jpg, .jpeg, .png or .bmp
EndsWithImageSuffix(name) ==
    \E k \in {4, 5} :
        /\ Len(name) >= k
        /\ Lower(SubSeq(name, Len(name) - k + 1, Len(name))) \in
               {<<".", "j", "p", "g">>, <<".", "j", "p", "e", "g">>,
                <<".", "p", "n", "g">>, <<".", "b", "m", "p">>}

\* C19: the files a batch reports are exactly the directory entries whose
\* name ends, case-insensitively, with .jpg, .jpeg, .png or .bmp, each of
\* them once; an entry with another extension is neither processed nor
\* reported.
C19_BatchEnumeratesImageSuffixes ==
    BatchReturned =>
        LET matching == {i \in 1..Len(req.listing) :
                            EndsWithImageSuffix(req.listing[i].name)}
        IN  /\ {resp.report[i].file : i \in 1..Len(resp.report)} =
                   {req.listing[i].name : i \in matching}
            /\ Len(resp.report) = Cardinality(matching)
            /\ resp.total_files = Cardinality(matching)

\* C19 witness: a directory that holds a.PNG and t.tif: the first is
\* reported, the second is not.
C19_Witness ==
    /\ BatchReturned
    /\ \E i \in 1..Len(req.listing) : req.listing[i].name = <<"t", ".", "t", "i", "f">>
    /\ \E i \in 1..Len(req.listing) : req.listing[i].name = <<"a", ".", "P", "N", "G">>
    /\ \E i \in 1..Len(resp.report) : resp.report[i].file = <<"a", ".", "P", "N", "G">>
    /\ \A i \in 1..Len(resp.report) : resp.report[i].file # <<"t", ".", "t", "i", "f">>

\* C20 (as claimed): an upload or process request analyses a file only if its
\* name ends with .jpg, .jpeg, .png or .bmp, and no other file is ever folded
\* into the statistics.
C20_SingleImageFormatsAsBatch ==
    /\ (resp.kind \in {"upload", "process"} /\ resp.results.keys # {}) =>
          EndsWithImageSuffix(req.name)
    /\ \A i \in 1..Len(calls) : EndsWithImageSuffix(calls[i].filename)

----
\* The service with storage faults: a write of the stats file may fail, and
\* the file may be deleted, damaged or replaced from outside the program.

MaxFaultClock == 2     \* a request starts while fewer updates than this were made
MaxFaultDirFiles == 2  \* files in a directory given to the batch request

\* What the stats file may be found to hold: nothing, text that does not
\* parse, the object {} and a JSON value that is no object
ForeignContents == {FileAbsent, FileUnreadable, FileJson(EmptyDict), FileJson(NonDict)}

StorageChange ==
    /\ clock < MaxFaultClock
    /\ \E f \in ForeignContents : file' = f
    /\ UNCHANGED <<clock, calls, ret, resp, req, pc, loaded, arg, local, overlapped, run,
                   self_vegetation_indices, job, batch>>

UploadUnderFaults ==
    clock < MaxFaultClock /\ \E r \in UploadRequests : UploadHandler(r, StorageFaults)

ProcessUnderFaults ==
    clock < MaxFaultClock /\ \E r \in ProcessRequests : ProcessHandler(r, StorageFaults)

BatchUnderFaults ==
    /\ clock < MaxFaultClock
    /\ \E r \in BatchRequestsUpTo(MaxFaultDirFiles) : BatchHandler(r, StorageFaults)

NextFault == StorageChange \/ UploadUnderFaults \/ ProcessUnderFaults \/ BatchUnderFaults

SpecFault == Init /\ [][NextFault]_vars

\* the request reached the classification of an image that decodes
ImageClassified ==
    \/ /\ req.kind = "upload"
       /\ req.given /\ req.name # <<>> /\ AllowedFile(req.name)
       /\ req.image.decodable
    \/ /\ req.kind = "process"
       /\ req.given /\ req.exists
       /\ req.image.decodable

\* C10 (as claimed): whatever the stats file holds and whether or not it can
\* be read or written, record() returns a record without raising, and the
\* request that classified an image answers with its ClassificationResult.
C10_StatsFaultsNeverAbort ==
    /\ ret.kind # "raised"
    /\ ImageClassified =>
          /\ resp.status = 200
          /\ ~resp.error
          /\ resp.results = ProcessSatelliteImage(req.image).results

----
\* The pipeline functions, each called once on an input of its domain

MaxSide == 2           \* height and width of the source images

Black == <<0, 0, 0>>
White == <<255, 255, 255>>
OnForestEdge == <<70, 130, 0>>      \* (g - r) / (g + r) is exactly 0.3
OnBareEdge == <<90, 110, 255>>      \* (g - r) / (g + r) is exactly 0.1

Palette == <<Forest, Bare, Between, Black, White, OnForestEdge, OnBareEdge>>

\* n values, a and b in turn
TwoTone(n, a, b) == [i \in 1..n |-> IF i % 2 = 1 THEN a ELSE b]

\* The files given to load_image and process_satellite_image: pictures of
\* every size up to MaxSide in one or two colours, and a file that does not
\* decode
PipelineImages ==
    {Image(h, w, TwoTone(h * w, Palette[i], Palette[j])) :
        h \in 1..MaxSide, w \in 1..MaxSide,
        i \in 1..Len(Palette), j \in 1..Len(Palette)}
    \cup {NoImage}

\* the first c channels of a colour with a fourth channel
Take(p, c) == SubSeq(p \o <<255>>, 1, c)

\* The 8-bit arrays given to preprocess_image: 2-D, or 3-D with 1 to 4 channels
RawImages ==
    {Raster(<<h, w>>, TwoTone(h * w, Take(Palette[i], 1), Take(Palette[j], 1)), 1) :
        h \in 1..MaxSide, w \in 1..MaxSide,
        i \in 1..Len(Palette), j \in 1..Len(Palette)}
    \cup
    {Raster(<<h, w, c>>, TwoTone(h * w, Take(Palette[i], c), Take(Palette[j], c)), 1) :
        h \in 1..MaxSide, w \in 1..MaxSide, c \in 1..4,
        i \in 1..Len(Palette), j \in 1..Len(Palette)}

\* The arrays given to calculate_vegetation_indices and save_results: what
\* preprocess_image returns, and arrays of other sizes
ImageInputs == {PreprocessImage(raw) : raw \in RawImages} \cup RawImages

\* NDVI values on, between and beyond the two thresholds
NdviValues == <<<<1, 10>>, <<3, 10>>, <<2, 10>>, <<31, 100>>, <<9, 100>>,
                <<-1, 2>>, <<0, 0>>>>

\* An image with its index set, as given to detect_deforestation: the indices
\* of the image, or a set built around a given NDVI array
DetectInputs ==
    {<<image, CalculateVegetationIndices(image)>> : image \in ImageInputs}
    \cup
    {LET ndvi == IndexArray(<<h, w>>, TwoTone(h * w, NdviValues[i], NdviValues[j]))
     IN  <<Raster(<<h, w, 3>>, TwoTone(h * w, Black, Black), 255),
           IndexSet(IndexNames, ndvi, ndvi, ndvi, ndvi)>> :
        h \in 1..MaxSide, w \in 1..MaxSide,
        i \in 1..Len(NdviValues), j \in 1..Len(NdviValues)}

\* one call is made, on a processor that has made none
NotCalled == run.op = "none"

Called(op, args, out) ==
    /\ run' = Call(op, args, out)
    /\ self_vegetation_indices' =
           IF op = "indices" \/ (op = "process" /\ ~out.raised)
           THEN out.indices ELSE self_vegetation_indices
    /\ UNCHANGED <<file, clock, calls, ret, resp, req, pc, loaded, arg, local,
                   overlapped, job, batch>>

LoadImageCall ==
    /\ NotCalled
    /\ \E image \in PipelineImages :
           Called("load", Arguments(image, NoRaster, NoIndices, "none"),
                  IF LoadRaises(image)
                  THEN Outcome(TRUE, NoRaster, NoIndices, NoResult, <<"load">>, {}, FALSE)
                  ELSE Outcome(FALSE, LoadImage(image), NoIndices, NoResult,
                               <<"load">>, {}, FALSE))

PreprocessImageCall ==
    /\ NotCalled
    /\ \E image \in RawImages :
           Called("preprocess", Arguments(NoImage, image, NoIndices, "none"),
                  Outcome(FALSE, PreprocessImage(image), NoIndices, NoResult,
                          <<"preprocess">>, {}, FALSE))

CalculateVegetationIndicesCall ==
    /\ NotCalled
    /\ \E image \in ImageInputs :
           Called("indices", Arguments(NoImage, image, NoIndices, "none"),
                  Outcome(FALSE, image, CalculateVegetationIndices(image), NoResult,
                          <<"indices">>, {}, FALSE))

DetectDeforestationCall ==
    /\ NotCalled
    /\ \E in \in DetectInputs :
           Called("detect", Arguments(NoImage, in[1], in[2], "none"),
                  Outcome(FALSE, in[1], in[2], DetectDeforestation(in[1], in[2]),
                          <<"detect">>, {}, FALSE))

\* save_results on an image and a result; the result is written as it is
SaveResultsOutcome(image, results, s) ==
    Outcome(FALSE, image, NoIndices, results, <<"save">>, s.saved, s.raised)

SaveResultsCall ==
    /\ NotCalled
    /\ \E image \in ImageInputs, fault \in SaveFaults,
          results \in {DegenerateResult, FullResult(2000, 505)} :
           Called("save", Arguments(NoImage, image, NoIndices, fault),
                  SaveResultsOutcome(image, results, SaveResults(image, results, fault)))

ProcessSatelliteImageCall ==
    /\ NotCalled
    /\ \E image \in PipelineImages, fault \in SaveFaults :
           Called("process", Arguments(image, NoRaster, NoIndices, fault),
                  PipelineRun(image, fault))

NextPipeline ==
    \/ LoadImageCall
    \/ PreprocessImageCall
    \/ CalculateVegetationIndicesCall
    \/ DetectDeforestationCall
    \/ SaveResultsCall
    \/ ProcessSatelliteImageCall

SpecPipeline == Init /\ [][NextPipeline]_vars

----
\* Properties of the pipeline functions

\* C11: loading a file that does not decode raises, and process_satellite_image
\* then raises too: it returns no result and runs no step after the load
\* (no preprocessing, no indices, no classification, nothing saved).
C11_LoadFailurePropagates ==
    /\ (run.op = "load" /\ ~run.args.image.decodable) =>
          /\ run.out.raised
          /\ run.out.raster = NoRaster
    /\ (run.op = "process" /\ ~run.args.image.decodable) =>
          /\ run.out.raised
          /\ run.out.results = NoResult
          /\ run.out.steps = <<"load">>
          /\ run.out.indices = NoIndices
          /\ run.out.saved = {}

\* C11 witness: process_satellite_image was called on a file that does not
\* decode and raised after the load.
C11_Witness ==
    /\ run.op = "process"
    /\ ~run.args.image.decodable
    /\ run.out.raised
    /\ run.out.steps = <<"load">>

\* C12: whichever write of save_results fails, process_satellite_image on an
\* image that decodes does not raise and returns the classification it
\* computed in memory.
C12_SaveFailuresAreSwallowed ==
    (run.op = "process" /\ run.args.image.decodable) =>
        /\ ~run.out.raised
        /\ run.out.results.keys = ResultKeys
        /\ run.out.results = DetectDeforestation(run.out.raster, run.out.indices)
        /\ run.out.steps = <<"load", "preprocess", "indices", "detect", "save">>

\* C12 witness: json.dump failed after both images were written, the
\* exception was swallowed and the full result came back.
C12_Witness ==
    /\ run.op = "process"
    /\ run.args.fault = "dump"
    /\ run.out.swallowed
    /\ run.out.saved = {"preprocessed", "mask", "results_partial"}
    /\ ~run.out.raised
    /\ run.out.results.keys = ResultKeys
    /\ run.out.results.total_pixels = TargetSize * TargetSize

\* C13: a result produced from a non-empty index set has both percentages in
\* [0, 100], confidence in [0.5, 0.95] and total_pixels equal to height times
\* width of the analysed image.
C13_ResultWithinRanges ==
    (run.op \in {"detect", "process"} /\ ~run.out.raised
        /\ run.out.indices.keys # {}) =>
        LET r == run.out.results
        IN  /\ {"deforestation_percentage", "forest_percentage", "confidence",
                "total_pixels"} \subseteq r.keys
            /\ r.deforestation_percentage \in 0..10000
            /\ r.forest_percentage \in 0..10000
            /\ r.confidence \in 500..950
            /\ r.total_pixels = run.out.raster.shape[1] * run.out.raster.shape[2]

\* C13 witness: an image that is half forest and half bare: 50 % each, and a
\* spread of NDVI wide enough for the lower clamp of the confidence.
C13_Witness ==
    /\ run.op = "process"
    /\ run.out.results.forest_percentage = 5000
    /\ run.out.results.deforestation_percentage = 5000
    /\ run.out.results.confidence = 500
    /\ run.out.results.total_pixels = TargetSize * TargetSize

\* C27: in every result produced from an NDVI array no pixel is counted both
\* as forest and as deforested: forest_pixels + deforested_pixels is at most
\* total_pixels, so the two percentages before rounding add up to at most 100.
C27_ForestAndDeforestedAreDisjoint ==
    (run.op \in {"detect", "process"} /\ ~run.out.raised
        /\ "NDVI" \in run.out.indices.keys) =>
        LET r == run.out.results
        IN  /\ r.forest_pixels >= 0
            /\ r.deforested_pixels >= 0
            /\ r.forest_pixels + r.deforested_pixels <= r.total_pixels
            /\ 100 * r.forest_pixels + 100 * r.deforested_pixels <= 100 * r.total_pixels

\* C27 witness: an NDVI array of four pixels, some just above the forest
\* threshold and the others below the deforested one, so that the two counts
\* together reach total_pixels
C27_Witness ==
    /\ run.op = "detect"
    /\ \E i \in 1..Len(run.out.indices.NDVI.data) :
           run.out.indices.NDVI.data[i] = <<31, 100>>
    /\ run.out.results.forest_pixels >= 1
    /\ run.out.results.deforested_pixels >= 1
    /\ run.out.results.total_pixels = 4
    /\ run.out.results.forest_pixels + run.out.results.deforested_pixels = 4

\* C14 (as claimed): without an NDVI index detect_deforestation returns,
\* without raising, a result that has all six fields, every one of them zero.
C14_DegenerateResultHasEveryField ==
    (run.op = "detect" /\ "NDVI" \notin run.args.indices.keys) =>
        /\ ~run.out.raised
        /\ run.out.results.keys = ResultKeys
        /\ run.out.results.deforestation_percentage = 0
        /\ run.out.results.confidence = 0
        /\ run.out.results.forest_percentage = 0
        /\ run.out.results.total_pixels = 0
        /\ run.out.results.forest_pixels = 0
        /\ run.out.results.deforested_pixels = 0

\* C21 (as claimed): after process_satellite_image classified an image and
\* no write met a fault, the output directory holds the preprocessed image,
\* the mask and the results file with the result that was returned.
C21_AllArtifactsWritten ==
    (run.op = "process" /\ ~run.out.raised /\ run.args.fault = "none") =>
        run.out.saved = {"preprocessed", "mask", "results"}

\* the value num / den (0 when den = 0) is at most 0.3, at least 0.1
AtMostForestThreshold(v) == v[2] = 0 \/ 10 * v[1] <= 3 * v[2]
AtLeastDeforestedThreshold(v) == v[2] > 0 /\ 10 * v[1] >= v[2]

\* C15: a pixel whose NDVI is at most 0.3 is not counted as forest and one
\* whose NDVI is at least 0.1 is not counted as deforested; when every NDVI
\* value lies in [0.1, 0.3] both percentages are 0.
C15_ThresholdsAreStrict ==
    (run.op = "detect" /\ "NDVI" \in run.args.indices.keys) =>
        LET ndvi == run.args.indices.NDVI.data
            r == run.out.results
            low == {i \in 1..Len(ndvi) : AtMostForestThreshold(ndvi[i])}
            high == {i \in 1..Len(ndvi) : AtLeastDeforestedThreshold(ndvi[i])}
        IN  /\ r.forest_pixels = Len(ndvi) - Cardinality(low)
            /\ r.deforested_pixels = Len(ndvi) - Cardinality(high)
            /\ (low = 1..Len(ndvi) /\ high = 1..Len(ndvi)) =>
                  /\ r.forest_percentage = 0
                  /\ r.deforestation_percentage = 0

\* C15 witness: an NDVI array that holds exactly 0.1 and exactly 0.3 and
\* nothing else, classified with both percentages 0.
C15_Witness ==
    /\ run.op = "detect"
    /\ "NDVI" \in run.args.indices.keys
    /\ \E i, j \in 1..Len(run.args.indices.NDVI.data) :
          /\ run.args.indices.NDVI.data[i] = <<1, 10>>
          /\ run.args.indices.NDVI.data[j] = <<3, 10>>
    /\ run.out.results.forest_percentage = 0
    /\ run.out.results.deforestation_percentage = 0
    /\ run.out.results.total_pixels > 1

ConstantImage(image, colour) ==
    /\ image.decodable
    /\ \A i \in 1..Len(image.pixels) : image.pixels[i] = colour

\* C16: an image that is R=50, G=180, B=50 everywhere has NDVI 0.565 on every
\* pixel and is 100 % forest, 0 % deforested; one that is R=200, G=60, B=60
\* everywhere has NDVI -0.538 and is 100 % deforested, 0 % forest.
C16_ConstantImagesAreAllOrNothing ==
    run.op = "process" =>
        LET r == run.out.results
            ndvi == run.out.indices.NDVI.data
        IN  /\ ConstantImage(run.args.image, <<50, 180, 50>>) =>
                  /\ \A i \in 1..Len(ndvi) : NdviMilli(ndvi[i]) = 565
                  /\ r.forest_percentage = 10000
                  /\ r.deforestation_percentage = 0
            /\ ConstantImage(run.args.image, <<200, 60, 60>>) =>
                  /\ \A i \in 1..Len(ndvi) : NdviMilli(ndvi[i]) = 0 - 538
                  /\ r.deforestation_percentage = 10000
                  /\ r.forest_percentage = 0

\* C16 witness: a 2 x 2 image of R=200, G=60, B=60 was processed and found
\* 100 % deforested.
C16_Witness ==
    /\ run.op = "process"
    /\ run.args.image.height = 2 /\ run.args.image.width = 2
    /\ ConstantImage(run.args.image, <<200, 60, 60>>)
    /\ run.out.results.deforestation_percentage = 10000
    /\ run.out.results.deforested_pixels = TargetSize * TargetSize

\* C17: for an image with at least 3 channels calculate_vegetation_indices
\* returns exactly NDVI, GNDVI, VARI and Greenness, each with the height and
\* width of the image; for any other image it returns the empty set; it never
\* raises.
C17_FourIndicesOrNone ==
    run.op = "indices" =>
        LET image == run.args.raster
            indices == run.out.indices
        IN  /\ ~run.out.raised
            /\ IF Len(image.shape) = 3 /\ image.shape[3] >= 3
               THEN /\ indices.keys = {"NDVI", "GNDVI", "VARI", "Greenness"}
                    /\ \A a \in {indices.NDVI, indices.GNDVI, indices.VARI,
                                 indices.Greenness} :
                          /\ a.shape = <<image.shape[1], image.shape[2]>>
                          /\ Len(a.data) = image.shape[1] * image.shape[2]
               ELSE indices.keys = {}

\* C17 witness: a 4-channel image, 1 pixel high and 2 wide, gave four indices
\* of shape 1 x 2.
C17_Witness ==
    /\ run.op = "indices"
    /\ run.args.raster.shape = <<1, 2, 4>>
    /\ run.out.indices.keys = {"NDVI", "GNDVI", "VARI", "Greenness"}
    /\ run.out.indices.VARI.shape = <<1, 2>>

\* C18 (as claimed): preprocess_image gives an array of the target height and
\* width with values in [0, 1] and as many channels as its input had, one for
\* a 2-D input.
C18_PreprocessKeepsChannels ==
    run.op = "preprocess" =>
        LET image == run.args.raster
            out == run.out.raster
        IN  /\ ~run.out.raised
            /\ Len(out.shape) = 3
            /\ out.shape[1] = TargetSize /\ out.shape[2] = TargetSize
            /\ out.shape[3] = (IF Len(image.shape) = 3 THEN image.shape[3] ELSE 1)
            /\ Len(out.data) = TargetSize * TargetSize
            /\ \A i \in 1..Len(out.data) :
                  /\ Len(out.data[i]) = out.shape[3]
                  /\ \A k \in 1..Len(out.data[i]) :
                        0 <= out.data[i][k] /\ out.data[i][k] <= out.scale

----
\* Classification results of full-size images folded into the statistics:
\* the result dict is built from pixel counts of a 512 x 512 image and given
\* to record(), as the handlers do with the result of the pipeline

MaxCountCalls == 2     \* record() calls in a run

\* <<total_pixels, deforested_pixels>> around one fifth of 262144 pixels:
\* 19.9947 %, 19.9959 %, 19.9997 %, 20.0001 % and 20.0012 %
PixelCounts ==
    {<<262144, 52415>>, <<262144, 52418>>, <<262144, 52428>>,
     <<262144, 52429>>, <<262144, 52432>>}

ClassifyAndRecord ==
    /\ clock < MaxCountCalls
    /\ \E c \in PixelCounts, confidence \in {500, 950}, forest \in BOOLEAN,
          upD, upC \in BOOLEAN :
           LET results == ResultOfCounts(c[1], IF forest THEN c[1] - c[2] ELSE 0,
                                         c[2], confidence)
               o == RecordOutcome(file, clock, NameA, results, upD, upC, "none")
           IN  /\ file' = o.file
               /\ clock' = o.clock
               /\ ret' = o.ret
               /\ calls' = calls \o o.entries
               /\ run' = Call("classify",
                              Arguments(NoImage, NoRaster, NoIndices, "none"),
                              Outcome(FALSE, NoRaster, NoIndices, results,
                                      <<"detect">>, {}, FALSE))
               /\ UNCHANGED <<resp, req, pc, loaded, arg, local, overlapped,
                              self_vegetation_indices, job, batch>>

NextCount == ClassifyAndRecord

SpecCount == Init /\ [][NextCount]_vars

\* C22 (as claimed): the result carries the percentage rounded to 2 decimals,
\* and an image is counted in total_deforested_images exactly when its
\* unrounded deforestation percentage, 100 * deforested_pixels / total_pixels,
\* is at least 20.
C22_ThresholdOnUnroundedValue ==
    [][(run'.op = "classify" /\ calls' # calls) =>
          LET r == run'.out.results
          IN  /\ r.deforestation_percentage \in
                     Roundings(10000 * r.deforested_pixels, r.total_pixels)
              /\ ReadStats(file').total_deforested_images =
                     ReadStats(file).total_deforested_images
                     + (IF 100 * r.deforested_pixels >= 20 * r.total_pixels
                        THEN 1 ELSE 0)
      ]_vars

----
\* Concurrent calls of process_satellite_image on the one processor instance
\* of app.py.  The handlers run in threads of one server; every thread has its
\* own locals, and all of them assign the field self.vegetation_indices.

MaxJobs == 2           \* calls of process_satellite_image one thread starts

JobImages ==
    {Image(1, 1, <<Forest>>), Image(1, 1, <<Bare>>), Image(1, 2, <<Forest, Bare>>),
     NoImage}

JobStep(t, j) ==
    /\ job' = [job EXCEPT ![t] = j]
    /\ UNCHANGED <<file, clock, calls, ret, resp, req, pc, loaded, arg, local,
                   overlapped, run, batch>>

\* a handler calls satellite_processor.process_satellite_image(filepath)
StartJob(t) ==
    /\ job[t].at \in {"idle", "done"}
    /\ job[t].count < MaxJobs
    /\ \E image \in JobImages :
           JobStep(t, Job("load", job[t].count + 1, image, NoRaster, NoIndices,
                          FALSE, NoResult))
    /\ UNCHANGED self_vegetation_indices

\* image, metadata = self.load_image(image_path); an exception ends the call
LoadStep(t) ==
    /\ job[t].at = "load"
    /\ IF LoadRaises(job[t].image)
       THEN JobStep(t, [job[t] EXCEPT !.at = "done", !.raised = TRUE])
       ELSE JobStep(t, [job[t] EXCEPT !.at = "preprocess",
                                      !.raster = LoadImage(job[t].image)])
    /\ UNCHANGED self_vegetation_indices

\* processed_image = self.preprocess_image(image)
PreprocessStep(t) ==
    /\ job[t].at = "preprocess"
    /\ JobStep(t, [job[t] EXCEPT !.at = "indices",
                                 !.raster = PreprocessImage(job[t].raster)])
    /\ UNCHANGED self_vegetation_indices

\* indices = self.calculate_vegetation_indices(processed_image): the dict is
\* stored in the field and returned to the caller
IndicesStep(t) ==
    LET indices == CalculateVegetationIndices(job[t].raster)
    IN  /\ job[t].at = "indices"
        /\ self_vegetation_indices' = indices
        /\ JobStep(t, [job[t] EXCEPT !.at = "detect", !.indices = indices])

\* Mutant of DetectOn: the detection reads the field of the processor
DetectOnSharedField(field, processed_image, indices) ==
    DetectDeforestation(processed_image, field)

\* self.detect_deforestation(processed_image, indices) on a processor whose
\* field holds `field`: the detection reads its parameter
DetectOn(field, processed_image, indices) ==
    DetectDeforestation(processed_image, indices)

\* results = self.detect_deforestation(processed_image, indices)
DetectStep(t) ==
    /\ job[t].at = "detect"
    /\ JobStep(t, [job[t] EXCEPT
                      !.at = "save",
                      !.results = DetectOn(self_vegetation_indices, job[t].raster,
                                           job[t].indices)])
    /\ UNCHANGED self_vegetation_indices

\* self.save_results(...); return results, mask, indices
SaveStep(t) ==
    /\ job[t].at = "save"
    /\ JobStep(t, [job[t] EXCEPT !.at = "done"])
    /\ UNCHANGED self_vegetation_indices

NextJobs ==
    \E t \in Threads :
        \/ StartJob(t)
        \/ LoadStep(t)
        \/ PreprocessStep(t)
        \/ IndicesStep(t)
        \/ DetectStep(t)
        \/ SaveStep(t)

SpecJobs == Init /\ [][NextJobs]_vars

\* C28: the result of a call of process_satellite_image depends only on its
\* image: it is the result the image gets on a processor used by nobody else,
\* whatever was processed before or is being processed at the same time, and
\* two calls on the same image end with the same result.
C28_ResultDependsOnImageOnly ==
    /\ \A t \in Threads :
           job[t].at = "done" =>
               /\ job[t].raised = ProcessSatelliteImage(job[t].image).raised
               /\ job[t].results = ProcessSatelliteImage(job[t].image).results
    /\ \A t, u \in Threads :
           (job[t].at = "done" /\ job[u].at = "done" /\ job[t].image = job[u].image)
               => job[t].results = job[u].results

\* C28 witness: the second call of thread 1 has returned the result of its
\* image while thread 2, in the middle of a call on another image, has put
\* the indices of its own image into the field
C28_Witness ==
    /\ job[1].at = "done"
    /\ job[1].count = 2
    /\ ~job[1].raised
    /\ job[1].results.keys = ResultKeys
    /\ job[2].at = "detect"
    /\ job[2].image # job[1].image
    /\ self_vegetation_indices = job[2].indices
    /\ self_vegetation_indices # job[1].indices

----
\* A batch request served step by step: batch_process lists the directory and
\* processes one file after the other, returns the report, and the handler
\* then walks through the report and records the successes.

MaxStepFiles == 3      \* files in a directory given to the stepwise batch request
MaxStepClock == 1      \* a request starts while fewer updates than this were made

BatchStep(b) ==
    /\ batch' = b
    /\ UNCHANGED <<pc, loaded, arg, local, overlapped, run, job>>

\* lines 299-308: the request arrives; a missing or unknown directory is
\* answered at once
StartBatch ==
    /\ batch.at \in {"idle", "done"}
    /\ clock < MaxStepClock
    /\ \E r \in BatchRequestsUpTo(MaxStepFiles) :
           /\ req' = r
           /\ IF ~r.given \/ ~r.exists
              THEN /\ Respond(ErrorBody("batch", IF r.given THEN 404 ELSE 400))
                   /\ BatchStep(Batch("done", <<>>, <<>>, <<>>, <<>>, Len(calls)))
              ELSE /\ BatchStep(Batch("list", <<>>, <<>>, <<>>, <<>>, Len(calls)))
                   /\ UNCHANGED resp
    /\ UNCHANGED <<file, clock, calls, ret, self_vegetation_indices>>

\* lines 215-217 of batch_process: os.listdir and the filter on the names; an
\* exception is raised again and the handler answers 500
ListStep ==
    /\ batch.at = "list"
    /\ IF ~req.listable
       THEN /\ Respond(ErrorBody("batch", 500))
            /\ BatchStep([batch EXCEPT !.at = "done"])
       ELSE /\ BatchStep([batch EXCEPT !.at = "process",
                                       !.files = SupportedFiles(req.listing)])
            /\ UNCHANGED resp
    /\ UNCHANGED <<file, clock, calls, ret, req, self_vegetation_indices>>

\* lines 222-236: one turn of the loop over supported_files
ProcessFileStep ==
    /\ batch.at = "process"
    /\ batch.files # <<>>
    /\ BatchStep([batch EXCEPT
                    !.files = Tail(batch.files),
                    !.results = batch.results \o <<ReportEntry(Head(batch.files))>>,
                    !.events = batch.events \o <<<<"processed", Head(batch.files).name>>>>])
    /\ self_vegetation_indices' =
           IndicesAfter(self_vegetation_indices, Head(batch.files).image)
    /\ UNCHANGED <<file, clock, calls, ret, resp, req>>

\* Mutant of BatchReturns: the report is handed over as soon as it has an entry
BatchReturnsEarly(files, results) == files = <<>> \/ results # <<>>

\* the loop of batch_process is left when no file remains
BatchReturns(files, results) == files = <<>>

\* line 238 and line 310: batch_process returns the report to the handler
ReturnStep ==
    /\ batch.at = "process"
    /\ BatchReturns(batch.files, batch.results)
    /\ BatchStep([batch EXCEPT !.at = "record", !.pending = batch.results])
    /\ UNCHANGED <<file, clock, calls, ret, resp, req, self_vegetation_indices>>

\* lines 314-316: one turn of the handler's loop over the report; an entry
\* that is no success is passed over, and an exception of the update ends the
\* request with status 500
RecordEntryStep ==
    /\ batch.at = "record"
    /\ batch.pending # <<>>
    /\ LET entry == Head(batch.pending)
       IN  IF IsRecorded(entry)
           THEN \E o \in RecordOutcomes(file, clock, entry.file, entry.result, {"none"}) :
                    /\ file' = o.file
                    /\ clock' = o.clock
                    /\ calls' = calls \o o.entries
                    /\ ret' = o.ret
                    /\ IF o.ret.kind = "raised"
                       THEN /\ Respond(ErrorBody("batch", 500))
                            /\ BatchStep([batch EXCEPT !.at = "done"])
                       ELSE /\ BatchStep([batch EXCEPT
                                           !.pending = Tail(batch.pending),
                                           !.events = batch.events \o
                                                          <<<<"recorded", entry.file>>>>])
                            /\ UNCHANGED resp
           ELSE /\ BatchStep([batch EXCEPT !.pending = Tail(batch.pending)])
                /\ UNCHANGED <<file, clock, calls, ret, resp>>
    /\ UNCHANGED <<req, self_vegetation_indices>>

\* lines 318-323: the response with the report and the stats read back
RespondStep ==
    /\ batch.at = "record"
    /\ batch.pending = <<>>
    /\ Respond(Response("batch", 200, NoResult, FALSE, ReadStats(file),
                        batch.results, Len(batch.results)))
    /\ BatchStep([batch EXCEPT !.at = "done"])
    /\ UNCHANGED <<file, clock, calls, ret, req, self_vegetation_indices>>

NextSteps ==
    \/ StartBatch
    \/ ListStep
    \/ ProcessFileStep
    \/ ReturnStep
    \/ RecordEntryStep
    \/ RespondStep

SpecSteps == Init /\ [][NextSteps]_vars

\* the names of the events of one kind, in the order they happened
EventNames(events, kind) ==
    LET of == SelectSeq(events, LAMBDA e : e[1] = kind)
    IN  [i \in 1..Len(of) |-> of[i][2]]

\* the names of the files of a sequence
NamesOf(files) == [i \in 1..Len(files) |-> files[i].name]

\* C29: in a batch request no statistics update happens before every file of
\* the batch has been processed; the updates then happen in report order, so
\* the history entries the batch adds are in discovery order of their files;
\* and when batch_process raises no update happens at all.
C29_UpdatesFollowProcessingInOrder ==
    LET found == Discovered(req.listing)
        ok == SelectSeq(found, LAMBDA e : e.image.decodable)
        processed == EventNames(batch.events, "processed")
        recorded == EventNames(batch.events, "recorded")
        added == SubSeq(calls, batch.base + 1, Len(calls))
    IN  batch.at # "idle" =>
          /\ \A i, j \in 1..Len(batch.events) :
                 (i < j /\ batch.events[i][1] = "recorded")
                     => batch.events[j][1] = "recorded"
          /\ Len(added) = Len(recorded)
          /\ \A i \in 1..Len(added) : added[i].filename = recorded[i]
          /\ Len(added) > 0 => processed = NamesOf(found)
          /\ Len(added) <= Len(ok)
          /\ recorded = SubSeq(NamesOf(ok), 1, Len(recorded))
          /\ ReadStats(file).history = calls
          /\ (~req.given \/ ~req.exists \/ ~req.listable) => added = <<>>
          /\ (batch.at = "done" /\ resp.status = 200) => recorded = NamesOf(ok)

\* C29 witness: a directory of three files, the second of which does not
\* decode: three files were processed, then the first and the third recorded
C29_Witness ==
    /\ batch.at = "done"
    /\ resp.status = 200
    /\ Len(batch.events) = 5
    /\ resp.report[2].status = "error"
    /\ EventNames(batch.events, "recorded") = <<resp.report[1].file, resp.report[3].file>>
    /\ Len(calls) = 2
====
